---- MODULE Spec2Model ----
(***************************************************************************)
(* Model of the AI Business Consultant API (src/main.py): the two store    *)
(* collections, the request handlers as interleaved sequences of store     *)
(* calls, and the pure helpers serialize_doc and generate_advice.          *)
(*                                                                         *)
(* Python values are tagged records [t |-> type, v |-> payload]; a dict is *)
(* a function from key strings to Python values, a list is a sequence.     *)
(* Strings are TLA+ strings, so an id text and the ObjectId it parses to   *)
(* are different things.                                                   *)
(***************************************************************************)
EXTENDS Integers, Sequences, FiniteSets, TLC

VARIABLES
    consultation,   \* db["consultation"]: sequence of documents, natural order
    message,        \* db["message"]: sequence of documents, natural order
    oids,           \* number of ObjectIds the store has generated so far
    clock,          \* the wall clock read by the store adapter
    req,            \* per worker: the request it is in the middle of, with its locals
    resp,           \* the response sent last, with the request it answers
    created,        \* the objects create-consultation has returned to clients
    call,           \* a pure-function call: [fn, pc, arg, ret, again]
    base            \* the documents the store held when the run began

vars == <<consultation, message, oids, clock, req, resp, created, call, base>>

-----------------------------------------------------------------------------
(* Bounds *)

MaxReqs == 2          \* worker threads handling requests concurrently
MaxCons == 1          \* consultations inserted in a run
MaxMsgs == 4          \* messages inserted in a run
MaxList == 2          \* length of the lists in the documents given to serialize_doc

Reqs == 1..MaxReqs

(* Program constants *)

CONSULTATION_LIMIT == 50     \* get_documents("consultation", {}, limit=50)
MESSAGE_LIMIT == 200         \* get_documents("message", ..., limit=200)
MIN_LENGTH == 1              \* MessageIn.content min_length
MAX_LENGTH == 4000           \* MessageIn.content max_length

-----------------------------------------------------------------------------
(* Python values *)

PyNone == [t |-> "None", v |-> ""]
PyStr(s) == [t |-> "str", v |-> s]
PyInt(n) == [t |-> "int", v |-> n]
PyObjectId(n) == [t |-> "ObjectId", v |-> n]
PyDatetime(n) == [t |-> "datetime", v |-> n]
PyList(q) == [t |-> "list", v |-> q]
PyDict(f) == [t |-> "dict", v |-> f]
PyTuple(q) == [t |-> "tuple", v |-> q]

EmptyDict == [k \in {} |-> PyNone]

Pad3(n) == IF n < 10 THEN "00" \o ToString(n)
           ELSE IF n < 100 THEN "0" \o ToString(n) ELSE ToString(n)

\* str(ObjectId): 24 lowercase hex digits
OidStr(n) == "65f0c0ffee00aabbccdd0" \o Pad3(n)
\* the same 12 bytes written with uppercase hex digits
OidStrUpper(n) == "65F0C0FFEE00AABBCCDD0" \o Pad3(n)

\* datetime.isoformat()
IsoFormat(n) == "2024-01-01T00:00:00.000" \o Pad3(n)

\* the ObjectIds a run can meet
OidRange == 0..(CONSULTATION_LIMIT + MESSAGE_LIMIT + MaxCons + MaxMsgs + 2)

\* the 24-character texts that are hex digits throughout, with the 12 bytes they spell
HexTexts == [s \in {OidStr(n) : n \in OidRange} \cup {OidStrUpper(n) : n \in OidRange} |->
                CHOOSE n \in OidRange : s \in {OidStr(n), OidStrUpper(n)}]

HexTextSet == DOMAIN HexTexts

\* bson.ObjectId(text): 24 hex digits of either case parse, anything else raises
\* InvalidId (ok = FALSE)
ObjectId(s) ==
    IF Len(s) = 24 /\ s \in HexTextSet
    THEN [ok |-> TRUE, oid |-> HexTexts[s]]
    ELSE [ok |-> FALSE, oid |-> 0]

-----------------------------------------------------------------------------
(* serialize_doc *)

\* _convert with a fallback of str(value) in place of the value itself
RECURSIVE _convert_str_fallback(_)
_convert_str_fallback(value) ==
    CASE value.t = "ObjectId" -> PyStr(OidStr(value.v))
      [] value.t = "datetime" -> PyStr(IsoFormat(value.v))
      [] value.t = "list" ->
            PyList([i \in 1..Len(value.v) |-> _convert_str_fallback(value.v[i])])
      [] value.t = "dict" ->
            PyDict([k \in DOMAIN value.v |-> _convert_str_fallback(value.v[k])])
      [] value.t = "int" -> PyStr(ToString(value.v))
      [] value.t = "None" -> PyStr("None")
      [] OTHER -> value

RECURSIVE _convert(_)
_convert(value) ==
    CASE value.t = "ObjectId" -> PyStr(OidStr(value.v))
      [] value.t = "datetime" -> PyStr(IsoFormat(value.v))
      [] value.t = "list" -> PyList([i \in 1..Len(value.v) |-> _convert(value.v[i])])
      [] value.t = "dict" -> PyDict([k \in DOMAIN value.v |-> _convert(value.v[k])])
      [] OTHER -> value

serialize_doc(doc) == _convert(doc)

\* s["id"] = s.pop("_id")
PopId(s) ==
    PyDict([k \in (DOMAIN s.v \ {"_id"}) \cup {"id"} |->
                IF k = "id" THEN s.v["_id"] ELSE s.v[k]])

-----------------------------------------------------------------------------
(* Document store adapter (database.create_document, database.get_documents)
   and the driver's find_one *)

\* the document insert-one stores: the data, stamped, under a generated _id
create_document(data, oid, now) ==
    PyDict([k \in DOMAIN data \cup {"_id", "created_at", "updated_at"} |->
                IF k = "_id" THEN PyObjectId(oid)
                ELSE IF k \in {"created_at", "updated_at"} THEN PyDatetime(now)
                ELSE data[k]])

\* the time the clock shows at the next read: it moves on between two inserts
Now == {clock + 1}

\* the documents of the collection that match the filter, in natural order
Filter(coll, filter) ==
    LET Matches(d) == \A k \in DOMAIN filter : k \in DOMAIN d.v /\ d.v[k] = filter[k]
    IN SelectSeq(coll, Matches)

\* find-many: the first `limit` documents matching the filter, in natural order
get_documents(coll, filter, limit) ==
    LET found == Filter(coll, filter)
    IN IF Len(found) > limit THEN SubSeq(found, 1, limit) ELSE found

\* collection.find_one({"_id": oid}): the document or None
find_one(coll, oid) ==
    LET found == Filter(coll, [k \in {"_id"} |-> PyObjectId(oid)])
    IN IF found = <<>> THEN PyNone ELSE Head(found)

-----------------------------------------------------------------------------
(* Schemas *)

\* ConsultationCreate: business_name, industry and goal are required strings;
\* stage defaults to "idea", notes to None
ValidConsultationCreate(p) ==
    /\ {"business_name", "industry", "goal"} \subseteq DOMAIN p
    /\ \A k \in DOMAIN p \cap {"business_name", "industry", "goal", "stage"} : p[k].t = "str"
    /\ "notes" \in DOMAIN p => p["notes"].t \in {"str", "None"}

ConsultationCreate(p) ==
    [k \in {"business_name", "industry", "stage", "goal", "notes"} |->
        IF k \in DOMAIN p THEN p[k]
        ELSE IF k = "stage" THEN PyStr("idea") ELSE PyNone]

\* MessageIn with max_length one too high
ValidMessageIn_one_more(content) ==
    Len(content) >= MIN_LENGTH /\ Len(content) <= MAX_LENGTH + 1

\* MessageIn: content has 1 to 4000 characters
ValidMessageIn(content) == Len(content) >= MIN_LENGTH /\ Len(content) <= MAX_LENGTH

\* dict.get(key, default)
DictGet(d, k, default) == IF k \in DOMAIN d.v THEN d.v[k] ELSE default

-----------------------------------------------------------------------------
(* generate_advice *)

\* str.lower() on the stage texts of the model
Lower(s) ==
    CASE s = "MVP" -> "mvp"
      [] s = "Growth" -> "growth"
      [] s = "SCALE" -> "scale"
      [] s = "Idea" -> "idea"
      [] s = "Seed" -> "seed"
      [] OTHER -> s

\* str.title() on the industry texts of the model
Title(s) ==
    CASE s = "retail" -> "Retail"
      [] s = "b2b saas" -> "B2B Saas"
      [] OTHER -> s

StageKeys == {"idea", "mvp", "growth", "scale"}

stage_focus ==
    [k \in StageKeys |->
        CASE k = "idea" -> <<"Problem validation", "Customer discovery",
                             "Value proposition", "Competitive scan">>
          [] k = "mvp" -> <<"MVP scope", "Success metrics", "Go-to-market",
                            "Pricing hypothesis">>
          [] k = "growth" -> <<"Acquisition channels", "Retention levers",
                               "Unit economics", "Sales pipeline">>
          [] k = "scale" -> <<"Org design", "Process/automation",
                              "Internationalization", "Risk & compliance">>]

\* the lookup with the stage as given, not lowercased
focus_as_given(meta_stage) ==
    IF meta_stage \in DOMAIN stage_focus THEN stage_focus[meta_stage]
    ELSE stage_focus["idea"]

\* focus = stage_focus.get(stage, stage_focus["idea"]), stage = meta.stage.lower()
focus(meta_stage) ==
    LET stage == Lower(meta_stage)
    IN IF stage \in DOMAIN stage_focus THEN stage_focus[stage] ELSE stage_focus["idea"]

RECURSIVE Join(_, _)
Join(sep, q) ==
    IF q = <<>> THEN ""
    ELSE IF Len(q) = 1 THEN q[1]
    ELSE q[1] \o sep \o Join(sep, Tail(q))

bullets(topics) ==
    Join("\n", [i \in 1..Len(topics) |->
        "- " \o topics[i] \o ": Consider 1-2 experiments this week to validate assumptions."])

next_steps ==
    "1) Define a one-sentence goal for the next 7 days\n"
    \o "2) Pick one channel to test (e.g., LinkedIn, cold email, partnerships)\n"
    \o "3) Draft a simple success metric (e.g., 5 qualified leads)\n"
    \o "4) Schedule a weekly review to iterate"

\* the template of the reply around a topic list
Render(user_text, meta, topics) ==
    "Context\n- Industry: " \o Title(meta["industry"].v)
    \o "\n- Stage: " \o Lower(meta["stage"].v)
    \o "\n- Goal: " \o meta["goal"].v \o "\n\n"
    \o "Your prompt\n"
    \o "- " \o user_text \o "\n\n"
    \o "Advisor Summary\n"
    \o "- Core thesis: Align actions to the next riskiest assumption.\n"
    \o "- Focus areas:\n" \o bullets(topics) \o "\n\n"
    \o "Suggested Next Steps\n" \o next_steps \o "\n\n"
    \o "Metrics To Watch\n- Lead velocity\n- Conversion to qualified opportunity\n- CAC vs LTV\n- Activation time\n\n"
    \o "Resources\n- Lean Canvas\n- Mom Test (customer interviews)\n- Pirate Metrics (AARRR)\n"

generate_advice(user_text, meta) == Render(user_text, meta, focus(meta["stage"].v))

-----------------------------------------------------------------------------
(* Requests *)

RECURSIVE Repeat(_, _)
Repeat(s, n) ==
    IF n = 0 THEN ""
    ELSE IF n % 2 = 0 THEN LET h == Repeat(s, n \div 2) IN h \o h
    ELSE s \o Repeat(s, n - 1)

\* request bodies of POST /api/consultations: stage and notes left out, all
\* fields given, and one without the required goal
Payloads ==
    { [k \in {"business_name", "industry", "goal"} |->
          CASE k = "business_name" -> PyStr("Acme")
            [] k = "industry" -> PyStr("retail")
            [] k = "goal" -> PyStr("grow sales")],
      [k \in {"business_name", "industry", "stage", "goal", "notes"} |->
          CASE k = "business_name" -> PyStr("Beta")
            [] k = "industry" -> PyStr("b2b saas")
            [] k = "stage" -> PyStr("MVP")
            [] k = "goal" -> PyStr("find fit")
            [] k = "notes" -> PyStr("pre-seed")],
      [k \in {"business_name", "industry"} |->
          CASE k = "business_name" -> PyStr("Acme")
            [] k = "industry" -> PyStr("retail")] }

\* request contents of POST .../messages: empty, shortest allowed, too long
Contents == {Repeat("x", MIN_LENGTH - 1), Repeat("x", MIN_LENGTH),
             Repeat("x", MAX_LENGTH + 1)}

\* consultation ids in request paths: the first generated id in lowercase and in
\* uppercase hex, an id the store never generates, and a text that is no ObjectId
IdInputs == {OidStr(1), OidStrUpper(1), OidStr(0), "not-an-id"}

Idle == [op |-> "none", pc |-> "idle", id |-> "", payload |-> PyNone,
         cons |-> PyNone, user_id |-> "", inserted_id |-> ""]

NoResp == [op |-> "none", id |-> "", payload |-> PyNone, status |-> 0,
           detail |-> "", body |-> PyNone, user_id |-> "", inserted_id |-> ""]

\* the request goes to the first free worker thread of the pool
Ready(r) == req[r].pc = "idle" /\ \A q \in Reqs : q < r => req[q].pc # "idle"

\* inserts that requests in flight are still to make
Pending ==
    2 * Cardinality({r \in Reqs : req[r].pc = "found"})
    + Cardinality({r \in Reqs : req[r].pc = "user_stored"})

Response(op, id, payload, status, detail, body) ==
    [NoResp EXCEPT !.op = op, !.id = id, !.payload = payload,
                   !.status = status, !.detail = detail, !.body = body]

-----------------------------------------------------------------------------
(* Handlers *)

\* POST /api/consultations: validation of the body, then create_document
create_consultation(r, payload) ==
    /\ Ready(r)
    /\ IF ~ValidConsultationCreate(payload)
       THEN /\ resp' = Response("create_consultation", "", PyDict(payload), 422,
                                "validation error", PyNone)
            /\ UNCHANGED <<consultation, message, oids, clock, req, created, call, base>>
       ELSE /\ Len(consultation) - base.consultation < MaxCons
            /\ \E now \in Now :
                LET doc == ConsultationCreate(payload)
                    inserted_id == OidStr(oids + 1)
                IN /\ consultation' = Append(consultation,
                                             create_document(doc, oids + 1, now))
                   /\ oids' = oids + 1
                   /\ clock' = now
                   /\ req' = [req EXCEPT ![r] =
                        [Idle EXCEPT !.op = "create_consultation", !.pc = "inserted",
                                     !.payload = PyDict(payload),
                                     !.inserted_id = inserted_id]]
            /\ UNCHANGED <<message, resp, created, call, base>>

\* create_consultation after the insert: re-fetch, serialize, map _id to id
create_consultation_return(r) ==
    /\ req[r].op = "create_consultation" /\ req[r].pc = "inserted"
    /\ LET saved == find_one(consultation, ObjectId(req[r].inserted_id).oid)
           saved_serialized == serialize_doc(saved)
       IN /\ resp' = [Response("create_consultation", "", req[r].payload, 200, "",
                               PopId(saved_serialized))
                         EXCEPT !.inserted_id = req[r].inserted_id]
          /\ created' = created \cup {PopId(saved_serialized)}
    /\ req' = [req EXCEPT ![r] = Idle]
    /\ UNCHANGED <<consultation, message, oids, clock, call, base>>

\* the loop of the list handlers: serialize each item, map _id to id
SerializeAll(items) == [i \in 1..Len(items) |-> PopId(serialize_doc(items[i]))]

\* list_consultations without the limit
list_consultations_unlimited ==
    /\ LET items == get_documents(consultation, EmptyDict, Len(consultation))
       IN resp' = Response("list_consultations", "", PyNone, 200, "",
                           PyList(SerializeAll(items)))
    /\ UNCHANGED <<consultation, message, oids, clock, req, created, call, base>>

\* GET /api/consultations
list_consultations ==
    /\ LET items == get_documents(consultation, EmptyDict, CONSULTATION_LIMIT)
       IN resp' = Response("list_consultations", "", PyNone, 200, "",
                           PyList(SerializeAll(items)))
    /\ UNCHANGED <<consultation, message, oids, clock, req, created, call, base>>

\* get_consultation answering an id that does not parse with 400
get_consultation_400(consultation_id) ==
    /\ LET parsed == ObjectId(consultation_id)
           it == find_one(consultation, parsed.oid)
       IN IF ~parsed.ok
          THEN resp' = Response("get_consultation", consultation_id, PyNone, 400,
                                "Invalid consultation id", PyNone)
          ELSE IF it = PyNone
          THEN resp' = Response("get_consultation", consultation_id, PyNone, 404,
                                "Consultation not found", PyNone)
          ELSE resp' = Response("get_consultation", consultation_id, PyNone, 200, "",
                                PopId(serialize_doc(it)))
    /\ UNCHANGED <<consultation, message, oids, clock, req, created, call, base>>

\* get_consultation returning the serialized document with its _id key unmapped
get_consultation_unmapped(consultation_id) ==
    /\ LET parsed == ObjectId(consultation_id)
           it == find_one(consultation, parsed.oid)
       IN IF ~parsed.ok
          THEN resp' = Response("get_consultation", consultation_id, PyNone, 404,
                                "Invalid consultation id", PyNone)
          ELSE IF it = PyNone
          THEN resp' = Response("get_consultation", consultation_id, PyNone, 404,
                                "Consultation not found", PyNone)
          ELSE resp' = Response("get_consultation", consultation_id, PyNone, 200, "",
                                serialize_doc(it))
    /\ UNCHANGED <<consultation, message, oids, clock, req, created, call, base>>

\* GET /api/consultations/{consultation_id}
get_consultation(consultation_id) ==
    /\ LET parsed == ObjectId(consultation_id)
           it == find_one(consultation, parsed.oid)
       IN IF ~parsed.ok
          THEN resp' = Response("get_consultation", consultation_id, PyNone, 404,
                                "Invalid consultation id", PyNone)
          ELSE IF it = PyNone
          THEN resp' = Response("get_consultation", consultation_id, PyNone, 404,
                                "Consultation not found", PyNone)
          ELSE resp' = Response("get_consultation", consultation_id, PyNone, 200, "",
                                PopId(serialize_doc(it)))
    /\ UNCHANGED <<consultation, message, oids, clock, req, created, call, base>>

\* GET /api/consultations/{consultation_id}/messages
list_messages(consultation_id) ==
    /\ LET parsed == ObjectId(consultation_id)
           items == get_documents(message,
                        [k \in {"consultation_id"} |-> PyStr(consultation_id)],
                        MESSAGE_LIMIT)
       IN IF ~parsed.ok
          THEN resp' = Response("list_messages", consultation_id, PyNone, 404,
                                "Invalid consultation id", PyNone)
          ELSE resp' = Response("list_messages", consultation_id, PyNone, 200, "",
                                PyList(SerializeAll(items)))
    /\ UNCHANGED <<consultation, message, oids, clock, req, created, call, base>>

\* send_message storing the user message before it looks the consultation up
send_message_store_first(r, consultation_id, content) ==
    /\ Ready(r)
    /\ LET parsed == ObjectId(consultation_id)
           cons == find_one(consultation, parsed.oid)
           stored == Append(message,
                        create_document([k \in {"consultation_id", "role", "content"} |->
                            CASE k = "consultation_id" -> PyStr(consultation_id)
                              [] k = "role" -> PyStr("user")
                              [] k = "content" -> PyStr(content)], oids + 1, clock + 1))
       IN IF ~ValidMessageIn(content)
          THEN /\ resp' = Response("send_message", consultation_id, PyStr(content),
                                   422, "validation error", PyNone)
               /\ UNCHANGED <<req, message, oids, clock>>
          ELSE IF ~parsed.ok \/ cons = PyNone
          THEN /\ Len(message) - base.message + Pending + 1 <= MaxMsgs
               /\ resp' = Response("send_message", consultation_id, PyStr(content),
                                   404, "Consultation not found", PyNone)
               /\ message' = stored /\ oids' = oids + 1 /\ clock' = clock + 1
               /\ UNCHANGED req
          ELSE /\ Len(message) - base.message + Pending + 2 <= MaxMsgs
               /\ req' = [req EXCEPT ![r] =
                    [Idle EXCEPT !.op = "send_message", !.pc = "found",
                                 !.id = consultation_id, !.payload = PyStr(content),
                                 !.cons = cons]]
               /\ UNCHANGED <<resp, message, oids, clock>>
    /\ UNCHANGED <<consultation, created, call, base>>

\* POST /api/consultations/{consultation_id}/messages: validation of the body,
\* then the lookup of the consultation
send_message(r, consultation_id, content) ==
    /\ Ready(r)
    /\ LET parsed == ObjectId(consultation_id)
           cons == find_one(consultation, parsed.oid)
       IN IF ~ValidMessageIn(content)
          THEN /\ resp' = Response("send_message", consultation_id, PyStr(content),
                                   422, "validation error", PyNone)
               /\ UNCHANGED req
          ELSE IF ~parsed.ok
          THEN /\ resp' = Response("send_message", consultation_id, PyStr(content),
                                   404, "Invalid consultation id", PyNone)
               /\ UNCHANGED req
          ELSE IF cons = PyNone
          THEN /\ resp' = Response("send_message", consultation_id, PyStr(content),
                                   404, "Consultation not found", PyNone)
               /\ UNCHANGED req
          ELSE /\ Len(message) - base.message + Pending + 2 <= MaxMsgs
               /\ req' = [req EXCEPT ![r] =
                    [Idle EXCEPT !.op = "send_message", !.pc = "found",
                                 !.id = consultation_id, !.payload = PyStr(content),
                                 !.cons = cons]]
               /\ UNCHANGED resp
    /\ UNCHANGED <<consultation, message, oids, clock, created, call, base>>

\* the message documents send_message builds
user_msg(consultation_id, content) ==
    [k \in {"consultation_id", "role", "content"} |->
        CASE k = "consultation_id" -> PyStr(consultation_id)
          [] k = "role" -> PyStr("user")
          [] k = "content" -> PyStr(content)]

assistant_msg(consultation_id, reply_text) ==
    [k \in {"consultation_id", "role", "content"} |->
        CASE k = "consultation_id" -> PyStr(consultation_id)
          [] k = "role" -> PyStr("assistant")
          [] k = "content" -> PyStr(reply_text)]

\* the metadata send_message synthesizes from the stored consultation
meta_of(cons) ==
    ConsultationCreate(
        [k \in {"business_name", "industry", "stage", "goal", "notes"} |->
            CASE k = "business_name" -> DictGet(cons, k, PyStr(""))
              [] k = "industry" -> DictGet(cons, k, PyStr(""))
              [] k = "stage" -> DictGet(cons, k, PyStr("idea"))
              [] k = "goal" -> DictGet(cons, k, PyStr(""))
              [] k = "notes" -> DictGet(cons, k, PyNone)])

\* send_message also stamping the consultation's updated_at when it stores the
\* user message
send_message_store_user_touch(r) ==
    /\ req[r].op = "send_message" /\ req[r].pc = "found"
    /\ message' = Append(message,
           create_document([k \in {"consultation_id", "role", "content"} |->
               CASE k = "consultation_id" -> PyStr(req[r].id)
                 [] k = "role" -> PyStr("user")
                 [] k = "content" -> req[r].payload], oids + 1, clock + 1))
    /\ consultation' = [i \in 1..Len(consultation) |->
           IF consultation[i].v["_id"] = req[r].cons.v["_id"]
           THEN PyDict([consultation[i].v EXCEPT !["updated_at"] = PyDatetime(clock + 1)])
           ELSE consultation[i]]
    /\ oids' = oids + 1
    /\ clock' = clock + 1
    /\ req' = [req EXCEPT ![r].pc = "user_stored", ![r].user_id = OidStr(oids + 1)]
    /\ UNCHANGED <<resp, created, call, base>>

\* send_message: store the user message
send_message_store_user(r) ==
    /\ req[r].op = "send_message" /\ req[r].pc = "found"
    /\ \E now \in Now :
        /\ message' = Append(message,
               create_document(user_msg(req[r].id, req[r].payload.v), oids + 1, now))
        /\ oids' = oids + 1
        /\ clock' = now
        /\ req' = [req EXCEPT ![r].pc = "user_stored", ![r].user_id = OidStr(oids + 1)]
    /\ UNCHANGED <<consultation, resp, created, call, base>>

\* send_message: generate the reply and store the assistant message
send_message_store_assistant(r) ==
    /\ req[r].op = "send_message" /\ req[r].pc = "user_stored"
    /\ \E now \in Now :
        LET reply_text == generate_advice(req[r].payload.v, meta_of(req[r].cons))
        IN /\ message' = Append(message,
                  create_document(assistant_msg(req[r].id, reply_text), oids + 1, now))
           /\ oids' = oids + 1
           /\ clock' = now
           /\ req' = [req EXCEPT ![r].pc = "assistant_stored",
                                 ![r].inserted_id = OidStr(oids + 1)]
    /\ UNCHANGED <<consultation, resp, created, call, base>>

\* send_message re-fetching the user message in place of the assistant message
send_message_return_user(r) ==
    /\ req[r].op = "send_message" /\ req[r].pc = "assistant_stored"
    /\ LET saved == find_one(message, ObjectId(req[r].user_id).oid)
       IN resp' = [Response("send_message", req[r].id, req[r].payload, 200, "",
                            PopId(serialize_doc(saved)))
                      EXCEPT !.user_id = req[r].user_id,
                             !.inserted_id = req[r].inserted_id]
    /\ req' = [req EXCEPT ![r] = Idle]
    /\ UNCHANGED <<consultation, message, oids, clock, created, call, base>>

\* send_message: re-fetch the assistant message, serialize, map _id to id
send_message_return(r) ==
    /\ req[r].op = "send_message" /\ req[r].pc = "assistant_stored"
    /\ LET saved == find_one(message, ObjectId(req[r].inserted_id).oid)
       IN resp' = [Response("send_message", req[r].id, req[r].payload, 200, "",
                            PopId(serialize_doc(saved)))
                      EXCEPT !.user_id = req[r].user_id,
                             !.inserted_id = req[r].inserted_id]
    /\ req' = [req EXCEPT ![r] = Idle]
    /\ UNCHANGED <<consultation, message, oids, clock, created, call, base>>

-----------------------------------------------------------------------------
(* The service *)

NoCall == [fn |-> "none", pc |-> "idle", arg |-> PyNone, ret |-> PyNone,
           again |-> PyNone]

Init ==
    /\ consultation = <<>>
    /\ message = <<>>
    /\ oids = 0
    /\ clock = 0
    /\ req = [r \in Reqs |-> Idle]
    /\ resp = NoResp
    /\ created = {}
    /\ call = NoCall
    /\ base = [consultation |-> 0, message |-> 0]

Next ==
    \/ \E r \in Reqs, payload \in Payloads : create_consultation(r, payload)
    \/ \E r \in Reqs : create_consultation_return(r)
    \/ list_consultations
    \/ \E id \in IdInputs : get_consultation(id)
    \/ \E id \in IdInputs : list_messages(id)
    \/ \E r \in Reqs, id \in IdInputs, content \in Contents : send_message(r, id, content)
    \/ \E r \in Reqs : send_message_store_user(r)
    \/ \E r \in Reqs : send_message_store_assistant(r)
    \/ \E r \in Reqs : send_message_return(r)

Spec == Init /\ [][Next]_vars

-----------------------------------------------------------------------------
(* The service on a store that already holds as many documents as the list
   endpoints return *)

DefaultPayload ==
    [k \in {"business_name", "industry", "goal"} |->
        CASE k = "business_name" -> PyStr("Acme")
          [] k = "industry" -> PyStr("retail")
          [] k = "goal" -> PyStr("grow sales")]

\* CONSULTATION_LIMIT consultations, created one after the other
FullConsultations ==
    [i \in 1..CONSULTATION_LIMIT |->
        create_document(ConsultationCreate(DefaultPayload), i, i)]

\* the k-th message of a conversation with consultation c: user messages and
\* the replies to them in turn
ConversationDoc(c, k, oid) ==
    IF k % 2 = 1
    THEN create_document(user_msg(OidStr(c), "x"), oid, oid)
    ELSE create_document(
            assistant_msg(OidStr(c),
                generate_advice("x", meta_of(FullConsultations[c]))), oid, oid)

\* one exchange with consultation 2, then MESSAGE_LIMIT messages with consultation 1
FullMessages ==
    [k \in 1..(MESSAGE_LIMIT + 2) |->
        IF k <= 2 THEN ConversationDoc(2, k, CONSULTATION_LIMIT + k)
        ELSE ConversationDoc(1, k, CONSULTATION_LIMIT + k)]

InitCap ==
    /\ consultation = FullConsultations
    /\ message = FullMessages
    /\ oids = Len(FullConsultations) + Len(FullMessages)
    /\ clock = Len(FullConsultations) + Len(FullMessages)
    /\ req = [r \in Reqs |-> Idle]
    /\ resp = NoResp
    /\ created = {}
    /\ call = NoCall
    /\ base = [consultation |-> Len(FullConsultations), message |-> Len(FullMessages)]

NextCap ==
    \/ \E r \in Reqs : create_consultation(r, DefaultPayload)
    \/ \E r \in Reqs : create_consultation_return(r)
    \/ list_consultations
    \/ \E id \in {OidStr(1), OidStr(2), OidStrUpper(1)} : list_messages(id)
    \/ \E r \in Reqs : send_message(r, OidStr(1), "x")
    \/ \E r \in Reqs : send_message_store_user(r)
    \/ \E r \in Reqs : send_message_store_assistant(r)
    \/ \E r \in Reqs : send_message_return(r)

SpecCap == InitCap /\ [][NextCap]_vars

-----------------------------------------------------------------------------
(* The pure functions, called on their own *)

\* scalar values of a document: text, numbers, None, store-native ids and
\* timestamps, an id already in text form, a tuple (which _convert leaves alone)
Scalars == {PyStr("a"), PyInt(1), PyNone, PyObjectId(1), PyDatetime(2),
            PyStr(OidStr(1)), PyTuple(<<PyObjectId(1)>>)}

ListsOf(S) == UNION {[1..n -> S] : n \in 0..MaxList}

\* values nested one level
Nested == Scalars
          \cup {PyList(q) : q \in ListsOf(Scalars)}
          \cup {PyDict([k \in {"k"} |-> x]) : x \in Scalars}

\* documents: a mapping with an identifier field and a nested field
Docs == {PyDict([k \in {"_id", "items"} |-> IF k = "_id" THEN i ELSE x]) :
            i \in Scalars, x \in Nested}

\* stage values: the four of the table, other spellings of them, and others
Stages == {"idea", "mvp", "growth", "scale", "MVP", "Growth", "SCALE", "Idea",
           "seed", "Seed", ""}

Metas == {[k \in {"business_name", "industry", "stage", "goal", "notes"} |->
              CASE k = "business_name" -> PyStr("Acme")
                [] k = "industry" -> PyStr(i)
                [] k = "stage" -> PyStr(st)
                [] k = "goal" -> PyStr(g)
                [] k = "notes" -> PyNone] :
            i \in {"retail", "b2b saas"}, st \in Stages, g \in {"grow sales", "find fit"}}

AdviceArgs == {[user_text |-> u, meta |-> m] : u \in {"x", "how do we grow?"}, m \in Metas}

InitPure ==
    /\ consultation = <<>>
    /\ message = <<>>
    /\ oids = 0
    /\ clock = 0
    /\ req = [r \in Reqs |-> Idle]
    /\ resp = NoResp
    /\ created = {}
    /\ base = [consultation |-> 0, message |-> 0]
    /\ \/ \E d \in Docs : call = [NoCall EXCEPT !.fn = "serialize_doc", !.pc = "ready",
                                                !.arg = d]
       \/ \E a \in AdviceArgs : call = [NoCall EXCEPT !.fn = "generate_advice",
                                                      !.pc = "ready", !.arg = a]

\* serialize_doc(doc)
serialize_doc_call ==
    /\ call.fn = "serialize_doc" /\ call.pc = "ready"
    /\ call' = [call EXCEPT !.pc = "once", !.ret = serialize_doc(call.arg)]
    /\ UNCHANGED <<consultation, message, oids, clock, req, resp, created, base>>

\* serialize_doc applied to its own result
serialize_doc_again ==
    /\ call.fn = "serialize_doc" /\ call.pc = "once"
    /\ call' = [call EXCEPT !.pc = "twice", !.again = serialize_doc(call.ret)]
    /\ UNCHANGED <<consultation, message, oids, clock, req, resp, created, base>>

\* generate_advice(user_text, meta)
generate_advice_call ==
    /\ call.fn = "generate_advice" /\ call.pc = "ready"
    /\ call' = [call EXCEPT !.pc = "once",
                            !.ret = PyStr(generate_advice(call.arg.user_text, call.arg.meta))]
    /\ UNCHANGED <<consultation, message, oids, clock, req, resp, created, base>>

NextPure ==
    \/ serialize_doc_call
    \/ serialize_doc_again
    \/ generate_advice_call

SpecPure == InitPure /\ [][NextPure]_vars

-----------------------------------------------------------------------------
(* Properties of the pure functions *)

IdeaTopics == <<"Problem validation", "Customer discovery", "Value proposition",
                "Competitive scan">>
MvpTopics == <<"MVP scope", "Success metrics", "Go-to-market", "Pricing hypothesis">>
GrowthTopics == <<"Acquisition channels", "Retention levers", "Unit economics",
                  "Sales pipeline">>
ScaleTopics == <<"Org design", "Process/automation", "Internationalization",
                 "Risk & compliance">>

TopicsOf(stage) ==
    CASE stage = "idea" -> IdeaTopics
      [] stage = "mvp" -> MvpTopics
      [] stage = "growth" -> GrowthTopics
      [] stage = "scale" -> ScaleTopics

AdviceDone == call.fn = "generate_advice" /\ call.pc = "once"

\* the reply generate_advice returned is the template around the topic list
AdviceUses(topics) ==
    call.ret = PyStr(Render(call.arg.user_text, call.arg.meta, topics))

\* C6 as stated: a stage value outside {idea, mvp, growth, scale} gets the idea
\* topic list, a stage value inside the set gets its own list.
C6_StageOutsideSetGetsIdea ==
    AdviceDone =>
        LET stage == call.arg.meta["stage"].v
        IN IF stage \in {"idea", "mvp", "growth", "scale"}
           THEN AdviceUses(TopicsOf(stage))
           ELSE AdviceUses(IdeaTopics)

\* C6 amended: the stage is compared in lowercase. A stage value whose lowercase
\* form is outside {idea, mvp, growth, scale} gets the idea topic list; one whose
\* lowercase form is in the set ("MVP", "Growth", ...) gets that stage's list.
C6_LowercasedStageSelectsTopics ==
    AdviceDone =>
        LET stage == call.arg.meta["stage"].v
        IN /\ stage \in {"idea", "Idea"} => AdviceUses(IdeaTopics)
           /\ stage \in {"mvp", "MVP"} => AdviceUses(MvpTopics)
           /\ stage \in {"growth", "Growth"} => AdviceUses(GrowthTopics)
           /\ stage \in {"scale", "SCALE"} => AdviceUses(ScaleTopics)
           /\ stage \in {"seed", "Seed", ""} => AdviceUses(IdeaTopics)

\* generate_advice has answered for stage "Seed" with the idea list
C6_Witness ==
    /\ AdviceDone
    /\ call.arg.meta["stage"].v = "Seed"
    /\ AdviceUses(IdeaTopics)
    /\ ~AdviceUses(MvpTopics)

\* no store-native id or timestamp anywhere in the value
RECURSIVE Plain(_)
Plain(value) ==
    CASE value.t \in {"ObjectId", "datetime"} -> FALSE
      [] value.t \in {"list", "tuple"} -> \A i \in 1..Len(value.v) : Plain(value.v[i])
      [] value.t = "dict" -> \A k \in DOMAIN value.v : Plain(value.v[k])
      [] OTHER -> TRUE

\* C7: serialize_doc(serialize_doc(d)) = serialize_doc(d) for every document d,
\* and serialize_doc(d) = d when d holds no store-native id or timestamp.
C7_SerializeIdempotent ==
    call.fn = "serialize_doc" =>
        /\ call.pc = "twice" => call.again = call.ret
        /\ (call.pc \in {"once", "twice"} /\ Plain(call.arg)) => call.ret = call.arg

\* serialize_doc has run twice on a document with an ObjectId inside a list,
\* and the first run converted it
C7_Witness ==
    /\ call.fn = "serialize_doc" /\ call.pc = "twice"
    /\ call.arg.v["items"] = PyList(<<PyObjectId(1), PyInt(1)>>)
    /\ call.ret.v["items"] = PyList(<<PyStr(OidStr(1)), PyInt(1)>>)
    /\ call.ret # call.arg

-----------------------------------------------------------------------------
(* Properties of the service *)

Malformed(id) == ~ObjectId(id).ok
Unknown(id) == ObjectId(id).ok /\ find_one(consultation, ObjectId(id).oid) = PyNone
InRange(content) == Len(content) \in MIN_LENGTH..MAX_LENGTH

\* the response in resp' is sent in this step
Sends(op) == resp' # resp /\ resp'.op = op

\* the message stored under the id text `id`, as the handler returns it
Field(doc, k) == doc.v[k]

\* C1: every send-message call that gets past the lookup stores exactly two
\* messages with the requested consultation_id, the user message with the request
\* content before the assistant message, and returns the assistant message only;
\* in any interleaving of requests.
C1_SendStoresUserThenAssistant ==
    /\ [](  (resp.op = "send_message" /\ resp.status = 200) =>
            \E i, j \in 1..Len(message) :
                /\ i < j
                /\ Field(message[i], "_id") = PyObjectId(ObjectId(resp.user_id).oid)
                /\ Field(message[i], "role") = PyStr("user")
                /\ Field(message[i], "content") = resp.payload
                /\ Field(message[i], "consultation_id") = PyStr(resp.id)
                /\ Field(message[j], "_id") = PyObjectId(ObjectId(resp.inserted_id).oid)
                /\ Field(message[j], "role") = PyStr("assistant")
                /\ Field(message[j], "consultation_id") = PyStr(resp.id)
                /\ resp.body.t = "dict"
                /\ Field(resp.body, "id") = PyStr(resp.inserted_id)
                /\ Field(resp.body, "role") = PyStr("assistant")
                /\ Field(resp.body, "content") = Field(message[j], "content")
                /\ Field(resp.body, "consultation_id") = PyStr(resp.id) )
    /\ [][ /\ SubSeq(message', 1, Len(message)) = message
           /\ Len(message') - Len(message) =
                Cardinality({r \in Reqs : req[r].pc = "found" /\ req'[r].pc = "user_stored"})
                + Cardinality({r \in Reqs : req[r].pc = "user_stored"
                                            /\ req'[r].pc = "assistant_stored"})
           /\ \A r \in Reqs :
                (req[r].op = "send_message" /\ req'[r].pc # req[r].pc) =>
                    \/ req[r].pc = "found" /\ req'[r].pc = "user_stored"
                    \/ req[r].pc = "user_stored" /\ req'[r].pc = "assistant_stored"
                    \/ /\ req[r].pc = "assistant_stored" /\ req'[r].pc = "idle"
                       /\ Sends("send_message") /\ resp'.status = 200 ]_vars

\* two send-message calls ran interleaved (both user messages stored before
\* either assistant message) and the later one has returned
C1_Witness ==
    /\ resp.op = "send_message" /\ resp.status = 200
    /\ Len(message) = 4
    /\ Field(message[1], "role") = PyStr("user")
    /\ Field(message[2], "role") = PyStr("user")
    /\ Field(message[4], "role") = PyStr("assistant")
    /\ Field(resp.body, "id") = PyStr(OidStr(Field(message[4], "_id").v))

\* C2 as stated: for a malformed or unknown consultation id, get-consultation,
\* list-messages and send-message respond 404 and nothing else.
C2_BadIdAlways404 ==
    (/\ resp.op \in {"get_consultation", "list_messages", "send_message"}
     /\ Malformed(resp.id) \/ Unknown(resp.id))
    => resp.status = 404

\* C2 amended: for a malformed id, get-consultation and list-messages respond
\* 404 and send-message responds 404 when its content is valid, 422 when it is
\* not; for an unknown id, get-consultation responds 404, send-message 404 or
\* (invalid content) 422, and list-messages responds 200 with an empty list.
C2_BadIdResponses ==
    (/\ resp.op \in {"get_consultation", "list_messages", "send_message"}
     /\ Malformed(resp.id) \/ Unknown(resp.id))
    => CASE resp.op = "get_consultation" -> resp.status = 404
         [] resp.op = "send_message" ->
                resp.status = IF InRange(resp.payload.v) THEN 404 ELSE 422
         [] resp.op = "list_messages" ->
                IF Malformed(resp.id) THEN resp.status = 404
                ELSE resp.status = 200 /\ resp.body = PyList(<<>>)

\* get-consultation has answered 404 for a text that is no ObjectId while a
\* consultation and messages are stored
C2_Witness ==
    /\ resp.op = "get_consultation" /\ Malformed(resp.id) /\ resp.status = 404
    /\ consultation # <<>> /\ message # <<>>

\* C3: in every reachable state, every stored message's consultation_id equals
\* the id of a stored consultation.
C3_MessagesReferenceStoredConsultation ==
    \A i \in 1..Len(message) :
        \E j \in 1..Len(consultation) :
            Field(message[i], "consultation_id")
                = PyStr(OidStr(Field(consultation[j], "_id").v))

\* C4: the object create-consultation returns has a non-empty string id, and any
\* later get-consultation with that id returns an identical object.
C4_CreateRoundTrips ==
    \A c \in created :
        /\ c.t = "dict"
        /\ "id" \in DOMAIN c.v
        /\ Field(c, "id").t = "str"
        /\ Field(c, "id").v # ""
        /\ (resp.op = "get_consultation" /\ resp.id = Field(c, "id").v)
                => (resp.status = 200 /\ resp.body = c)

\* a get-consultation has returned an object create-consultation returned
\* earlier, after messages were sent in between
C4_Witness ==
    /\ resp.op = "get_consultation" /\ resp.status = 200
    /\ resp.body \in created
    /\ Field(resp.body, "stage") = PyStr("MVP")
    /\ Len(message) >= 2

\* C5: a send-message request whose content is not 1 to 4000 characters long is
\* answered 422 and leaves both collections as they were; no such request gets
\* to the handler.
C5_InvalidContentWritesNothing ==
    /\ [](\A r \in Reqs : req[r].op = "send_message" => InRange(req[r].payload.v))
    /\ [][ (Sends("send_message") /\ ~InRange(resp'.payload.v)) =>
                /\ resp'.status = 422
                /\ consultation' = consultation
                /\ message' = message
                /\ req' = req ]_vars

\* a send-message with 4001 characters, to a stored consultation that has
\* messages, was answered 422
C5_Witness ==
    /\ resp.op = "send_message" /\ resp.status = 422
    /\ Len(resp.payload.v) = MAX_LENGTH + 1
    /\ ~Malformed(resp.id) /\ ~Unknown(resp.id)
    /\ message # <<>>

C10_NotFoundStoresNothing ==
    [][ (Sends("send_message") /\ resp'.status = 404) =>
            /\ consultation' = consultation
            /\ message' = message
            /\ oids' = oids
            /\ req' = req ]_vars

\* send-message was answered 404 for an id that parses but is not stored, with
\* messages of another consultation in the store
C10_Witness ==
    /\ resp.op = "send_message" /\ resp.status = 404
    /\ Unknown(resp.id)
    /\ message # <<>>

\* the stored messages whose consultation_id is the text `id`
MessagesOf(id) ==
    {i \in 1..Len(message) : Field(message[i], "consultation_id") = PyStr(id)}

\* C9: list-consultations returns at most 50 consultations and list-messages at
\* most 200 messages, however many are stored, and list-messages returns only
\* messages whose consultation_id is the requested id.
C9_ListsAreCapped ==
    /\ resp.op = "list_consultations" =>
            /\ resp.body.t = "list"
            /\ Len(resp.body.v) <= 50
    /\ (resp.op = "list_messages" /\ resp.status = 200) =>
            /\ resp.body.t = "list"
            /\ Len(resp.body.v) <= 200
            /\ \A i \in 1..Len(resp.body.v) :
                    Field(resp.body.v[i], "consultation_id") = PyStr(resp.id)

\* more than 50 consultations and more than 200 messages of one consultation
\* are stored, and list-consultations has returned 50 of them
C9_Witness ==
    /\ Len(consultation) > 50
    /\ Cardinality(MessagesOf(OidStr(1))) > 200
    /\ resp.op = "list_consultations"
    /\ Len(resp.body.v) = 50

====
